---- MODULE Spec2Model ----
(***************************************************************************)
(* The offline vote queue of vue-voting-poc (src/App.vue, src/db.js).      *)
(*                                                                         *)
(* The Dexie table db.votes is the durable record store; castVote adds a   *)
(* record, processQueue (started by setInterval every 3000 ms) is the      *)
(* sweep, sendVote is the transport, toggleOnline is the connectivity      *)
(* switch.  JavaScript runs each handler to its next await, so one action  *)
(* of the model is the code between two awaits of one invocation.  A       *)
(* Dexie operation takes effect when it is issued (IndexedDB serialises    *)
(* the transactions on a table in creation order) and its awaiter resumes  *)
(* in a later action.  Durations are not modelled: a timer tick may fall   *)
(* between any two actions, since an awaited store operation or transport  *)
(* call has no upper bound on its latency.                                 *)
(***************************************************************************)
EXTENDS Naturals, Integers, Sequences, FiniteSets, Bags, TLC

\* Number of castVote calls explored.
MaxVotes == 2
\* Number of processQueue invocations that may be in flight together.
MaxSweeps == 2
\* The same number where store operations may reject (StoreSpec).
MaxStoreSweeps == 1

VARIABLES
    db,            \* db.votes: primary key -> stored record (survives a reload)
    votes,         \* the ref `votes`: what loadVotes last displayed
    isOnline,      \* the ref `isOnline`
    syncInterval,  \* "null" before onMounted set the timer, "set" after
    sweeps,        \* the in-flight processQueue invocations (a bag: an
                   \* invocation has no identity beyond where it stands)
    created,       \* how many ids generateId has produced (clock and entropy)
    delivered      \* history: ids for which sendVote returned true

vars == <<db, votes, isOnline, syncInterval, sweeps, created, delivered>>

Ids == 1..MaxVotes

\* ---- Utils ----

\* 'vote-' + Date.now() + '-' + random: a value no earlier call returned.
GenerateId(n) == n + 1

\* crypto.randomUUID(): a token no earlier call returned.
RandomUUID(n) == <<"uuid", n + 1>>

\* SHA-256 of the text, hex encoded: a function of its input alone.
SignVote(data) == <<"sha256", data>>

\* ---- Dexie table operations ----

\* Table.add: a new row under the record's primary key.
Add(store, rec) ==
    [k \in DOMAIN store \cup {rec.id} |-> IF k = rec.id THEN rec ELSE store[k]]

\* Table.update(key, changes): overwrites the given fields of an existing
\* row and does nothing when no row has that key.
Update(store, key, changes) ==
    IF key \in DOMAIN store
    THEN [store EXCEPT ![key] =
            [f \in DOMAIN store[key] |->
                IF f \in DOMAIN changes THEN changes[f] ELSE store[key][f]]]
    ELSE store

\* Table.delete(key): removes the row; no error when there is none.
Delete(store, key) == [k \in DOMAIN store \ {key} |-> store[k]]

RECURSIVE KeysInOrder(_)
\* The keys of S in ascending order (the order of an index scan).
KeysInOrder(S) ==
    IF S = {} THEN <<>>
    ELSE LET m == CHOOSE x \in S : \A y \in S : x <= y
         IN  <<m>> \o KeysInOrder(S \ {m})

\* Table.toArray(): every row, by primary key.
ToArray(store) ==
    LET ks == KeysInOrder(DOMAIN store) IN [i \in 1..Len(ks) |-> store[ks[i]]]

\* where('status').equals(st).toArray(): the rows with that status.
WhereStatus(store, st) ==
    LET ks == KeysInOrder({k \in DOMAIN store : store[k].status = st})
    IN  [i \in 1..Len(ks) |-> store[ks[i]]]

\* ---- State ----

\* One processQueue invocation: where it stands, and the part of its
\* `queued` array from the vote in hand onward.
Sweep(pc, q) == [pc |-> pc, queued |-> q]

\* The invocations in flight with `old` having moved on to `new`.
Moved(old, new) == (sweeps (-) SetToBag({old})) (+) SetToBag({new})

Init ==
    /\ db = <<>>
    /\ votes = <<>>
    /\ isOnline = TRUE
    /\ syncInterval = "null"
    /\ sweeps = EmptyBag
    /\ created = 0
    /\ delivered = {}

\* onMounted: loadVotes, then the periodic timer is started.
Mounted ==
    /\ syncInterval = "null"
    /\ votes' = ToArray(db)
    /\ syncInterval' = "set"
    /\ UNCHANGED <<db, isOnline, sweeps, created, delivered>>

\* The page is reloaded: refs, timer and in-flight invocations are lost,
\* the IndexedDB table is kept.
Restart ==
    /\ votes' = <<>>
    /\ isOnline' = TRUE
    /\ syncInterval' = "null"
    /\ sweeps' = EmptyBag
    /\ UNCHANGED <<db, created, delivered>>

\* ---- Main Actions ----

\* The record castVote builds from the n ids generated so far.
NewVote(n) ==
    LET id  == GenerateId(n)
        key == RandomUUID(n)
    IN  [id |-> id, idempotencyKey |-> key, status |-> "queued", retries |-> 0,
         signature |-> SignVote(<<id, key>>)]

\* Faulty variant: the new vote is shown but never written to the table.
CastVoteUnsaved ==
    /\ created < MaxVotes
    /\ created' = created + 1
    /\ db' = db
    /\ votes' = Append(votes, NewVote(created))
    /\ UNCHANGED <<isOnline, syncInterval, sweeps, delivered>>

CastVote ==
    /\ created < MaxVotes
    /\ created' = created + 1
    /\ db' = Add(db, NewVote(created))
    /\ votes' = ToArray(db')
    /\ UNCHANGED <<isOnline, syncInterval, sweeps, delivered>>

ToggleOnline ==
    /\ isOnline' = ~isOnline
    /\ UNCHANGED <<db, votes, syncInterval, sweeps, created, delivered>>

\* What update(key, ...) resolves to on store: the number of rows it
\* changed, 1 ("claimed") or 0 ("missed"); processQueue discards it.
Updated(store, key) == IF key \in DOMAIN store THEN "claimed" ELSE "missed"

\* An invocation whose 'sending' write resolved and which is about to
\* call sendVote.
AtSendVote(sw) == sw.pc \in {"claimed", "missed"}

\* Faulty variant: the claim is written with put from the invocation's
\* copy of the vote, so the copy's stale fields overwrite the row.
LoopHeadPutsSnapshot(sw, q) ==
    IF q = <<>>
    THEN /\ sweeps' = Moved(sw, Sweep("loading", <<>>))
         /\ db' = db
    ELSE /\ sweeps' = Moved(sw, Sweep(Updated(db, Head(q).id), q))
         /\ db' = Add(db, [Head(q) EXCEPT !.status = "sending"])

\* The head of `for (const vote of queued)` with q left to visit: the next
\* vote is written as 'sending', or the loop is over and loadVotes is issued.
LoopHead(sw, q) ==
    IF q = <<>>
    THEN /\ sweeps' = Moved(sw, Sweep("loading", <<>>))
         /\ db' = db
    ELSE /\ sweeps' = Moved(sw, Sweep(Updated(db, Head(q).id), q))
         /\ db' = Update(db, Head(q).id, [status |-> "sending"])

\* Faulty variant: the query also returns the 'failed' records.
StartSweepAlsoFailed ==
    /\ syncInterval = "set"
    /\ BagCardinality(sweeps) < MaxSweeps
    /\ sweeps' = sweeps (+) SetToBag({Sweep("queried",
                    ToArray([k \in {i \in DOMAIN db :
                                      db[i].status \in {"queued", "failed"}}
                             |-> db[k]]))})
    /\ UNCHANGED <<db, votes, isOnline, syncInterval, created, delivered>>

\* A timer tick calls processQueue, which issues its query.
StartSweep ==
    /\ syncInterval = "set"
    /\ BagCardinality(sweeps) < MaxSweeps
    /\ sweeps' = sweeps (+) SetToBag({Sweep("queried", WhereStatus(db, "queued"))})
    /\ UNCHANGED <<db, votes, isOnline, syncInterval, created, delivered>>

\* The query resolved: the loop starts.
ResumeQuery(sw) ==
    /\ sw.pc = "queried"
    /\ LoopHead(sw, sw.queued)
    /\ UNCHANGED <<votes, isOnline, syncInterval, created, delivered>>

\* Faulty variant: sendVote without its isOnline test.
SendVoteIgnoresOffline(sw) ==
    /\ AtSendVote(sw)
    /\ sweeps' = Moved(sw, Sweep("waiting", sw.queued))
    /\ db' = db
    /\ UNCHANGED <<votes, isOnline, syncInterval, created, delivered>>

\* The 'sending' write resolved and sendVote(vote) is called: offline it
\* returns false at once and the loop goes on, online it starts the call.
SendVote(sw) ==
    /\ AtSendVote(sw)
    /\ IF ~isOnline
       THEN LoopHead(sw, Tail(sw.queued))
       ELSE /\ sweeps' = Moved(sw, Sweep("waiting", sw.queued))
            /\ db' = db
    /\ UNCHANGED <<votes, isOnline, syncInterval, created, delivered>>

\* sendVote returned true: the record is deleted.
TransportSuccess(sw) ==
    /\ sw.pc = "waiting"
    /\ db' = Delete(db, Head(sw.queued).id)
    /\ delivered' = delivered \cup {Head(sw.queued).id}
    /\ sweeps' = Moved(sw, Sweep("settled", sw.queued))
    /\ UNCHANGED <<votes, isOnline, syncInterval, created>>

\* Faulty variant: the catch block drops the record instead of marking it.
TransportFailDrops(sw) ==
    /\ sw.pc = "waiting"
    /\ db' = Delete(db, Head(sw.queued).id)
    /\ sweeps' = Moved(sw, Sweep("settled", sw.queued))
    /\ UNCHANGED <<votes, isOnline, syncInterval, created, delivered>>

\* Faulty variant: the catch block also issues a new idempotencyKey.
TransportFailRekeys(sw) ==
    /\ sw.pc = "waiting"
    /\ LET vote == Head(sw.queued) IN
        db' = Update(db, vote.id,
                     [status |-> "failed", retries |-> vote.retries + 1,
                      idempotencyKey |-> RandomUUID(created)])
    /\ sweeps' = Moved(sw, Sweep("settled", sw.queued))
    /\ UNCHANGED <<votes, isOnline, syncInterval, created, delivered>>

\* Faulty variant: the catch block writes the whole vote with put.
TransportFailPuts(sw) ==
    /\ sw.pc = "waiting"
    /\ LET vote == Head(sw.queued) IN
        db' = Add(db, [vote EXCEPT !.status = "failed", !.retries = @ + 1])
    /\ sweeps' = Moved(sw, Sweep("settled", sw.queued))
    /\ UNCHANGED <<votes, isOnline, syncInterval, created, delivered>>

\* Faulty variant: the catch block puts the record back in the queue.
TransportFailRequeues(sw) ==
    /\ sw.pc = "waiting"
    /\ LET vote == Head(sw.queued) IN
        db' = Update(db, vote.id, [status |-> "queued", retries |-> vote.retries + 1])
    /\ sweeps' = Moved(sw, Sweep("settled", sw.queued))
    /\ UNCHANGED <<votes, isOnline, syncInterval, created, delivered>>

\* sendVote threw 'Network error': the catch block marks the record.
TransportFail(sw) ==
    /\ sw.pc = "waiting"
    /\ LET vote == Head(sw.queued) IN
        db' = Update(db, vote.id, [status |-> "failed", retries |-> vote.retries + 1])
    /\ sweeps' = Moved(sw, Sweep("settled", sw.queued))
    /\ UNCHANGED <<votes, isOnline, syncInterval, created, delivered>>

\* The delete or the 'failed' write resolved: on to the next vote.
ResumeSettled(sw) ==
    /\ sw.pc = "settled"
    /\ LoopHead(sw, Tail(sw.queued))
    /\ UNCHANGED <<votes, isOnline, syncInterval, created, delivered>>

\* The closing loadVotes resolved: processQueue returns.
FinishSweep(sw) ==
    /\ sw.pc = "loading"
    /\ votes' = ToArray(db)
    /\ sweeps' = sweeps (-) SetToBag({sw})
    /\ UNCHANGED <<db, isOnline, syncInterval, created, delivered>>

Next ==
    \/ Mounted
    \/ Restart
    \/ CastVote
    \/ ToggleOnline
    \/ StartSweep
    \/ \E sw \in BagToSet(sweeps) : ResumeQuery(sw)
    \/ \E sw \in BagToSet(sweeps) : SendVote(sw)
    \/ \E sw \in BagToSet(sweeps) : TransportSuccess(sw)
    \/ \E sw \in BagToSet(sweeps) : TransportFail(sw)
    \/ \E sw \in BagToSet(sweeps) : ResumeSettled(sw)
    \/ \E sw \in BagToSet(sweeps) : FinishSweep(sw)

Spec == Init /\ [][Next]_vars

\* ---- Store failures ----
\* A Dexie operation may reject (the database is closed, the quota is
\* exceeded, the transaction aborts).  A rejected operation changes
\* nothing in the table; its awaiter resumes by throwing.  A rejected add
\* in castVote leaves every variable as it was and is not an action.

\* The vote an invocation is about to write as 'sending' when it resumes:
\* the first of its array after the query, the next one after a settled
\* vote or after sendVote returned false offline.
NextToClaim(sw) ==
    IF sw.pc = "queried" THEN sw.queued
    ELSE IF sw.pc = "settled" \/ (AtSendVote(sw) /\ ~isOnline)
    THEN Tail(sw.queued)
    ELSE <<>>

\* Faulty variant: the rejection of the 'sending' write is swallowed and
\* the invocation goes on to sendVote.
ClaimWriteFailsUnnoticed(sw) ==
    /\ NextToClaim(sw) # <<>>
    /\ sweeps' = Moved(sw, Sweep("claimed", NextToClaim(sw)))
    /\ UNCHANGED <<db, votes, isOnline, syncInterval, created, delivered>>

\* update(vote.id, {status: 'sending'}) rejects: nothing is written and
\* the try block will be left for the catch block.
ClaimWriteFails(sw) ==
    /\ NextToClaim(sw) # <<>>
    /\ sweeps' = Moved(sw, Sweep("unclaimed", NextToClaim(sw)))
    /\ UNCHANGED <<db, votes, isOnline, syncInterval, created, delivered>>

\* sendVote returned true and delete(vote.id) rejects: the record stays.
DeleteFails(sw) ==
    /\ sw.pc = "waiting"
    /\ delivered' = delivered \cup {Head(sw.queued).id}
    /\ sweeps' = Moved(sw, Sweep("undeleted", sw.queued))
    /\ UNCHANGED <<db, votes, isOnline, syncInterval, created>>

\* The rejection is caught: the catch block marks the record.
CatchRejection(sw) ==
    /\ sw.pc \in {"unclaimed", "undeleted"}
    /\ LET vote == Head(sw.queued) IN
        db' = Update(db, vote.id, [status |-> "failed", retries |-> vote.retries + 1])
    /\ sweeps' = Moved(sw, Sweep("settled", sw.queued))
    /\ UNCHANGED <<votes, isOnline, syncInterval, created, delivered>>

\* The update in the catch block rejects (after sendVote threw or after a
\* rejection was caught): nothing is written and processQueue will throw.
CatchWriteFails(sw) ==
    /\ sw.pc \in {"waiting", "unclaimed", "undeleted"}
    /\ sweeps' = Moved(sw, Sweep("thrown", sw.queued))
    /\ UNCHANGED <<db, votes, isOnline, syncInterval, created, delivered>>

\* A timer tick calls processQueue and its query rejects.
QueryFails ==
    /\ syncInterval = "set"
    /\ BagCardinality(sweeps) < MaxStoreSweeps
    /\ sweeps' = sweeps (+) SetToBag({Sweep("thrown", <<>>)})
    /\ UNCHANGED <<db, votes, isOnline, syncInterval, created, delivered>>

\* processQueue ends with the rejection: the rest of its array is not
\* visited and loadVotes is not called.  (The closing loadVotes rejecting
\* ends the invocation the same way.)
Thrown(sw) ==
    /\ sw.pc \in {"thrown", "loading"}
    /\ sweeps' = sweeps (-) SetToBag({sw})
    /\ UNCHANGED <<db, votes, isOnline, syncInterval, created, delivered>>

NextStore ==
    \/ Mounted
    \/ Restart
    \/ CastVote
    \/ ToggleOnline
    \/ StartSweep /\ BagCardinality(sweeps) < MaxStoreSweeps
    \/ \E sw \in BagToSet(sweeps) : ResumeQuery(sw)
    \/ \E sw \in BagToSet(sweeps) : SendVote(sw)
    \/ \E sw \in BagToSet(sweeps) : TransportSuccess(sw)
    \/ \E sw \in BagToSet(sweeps) : TransportFail(sw)
    \/ \E sw \in BagToSet(sweeps) : ResumeSettled(sw)
    \/ \E sw \in BagToSet(sweeps) : FinishSweep(sw)
    \/ QueryFails
    \/ \E sw \in BagToSet(sweeps) : ClaimWriteFails(sw)
    \/ \E sw \in BagToSet(sweeps) : DeleteFails(sw)
    \/ \E sw \in BagToSet(sweeps) : CatchRejection(sw)
    \/ \E sw \in BagToSet(sweeps) : CatchWriteFails(sw)
    \/ \E sw \in BagToSet(sweeps) : Thrown(sw)

\* The program with a store whose operations may reject, with at most
\* MaxStoreSweeps invocations of processQueue in flight.
StoreSpec == Init /\ [][NextStore]_vars

\* ---- Scheduling ----

\* What the runtime guarantees: onMounted completes, the interval timer
\* keeps firing, every awaited store operation resolves, and every
\* transport call ends.
Scheduling ==
    /\ WF_vars(Mounted)
    /\ WF_vars(StartSweep)
    /\ WF_vars(\E sw \in BagToSet(sweeps) : ResumeQuery(sw))
    /\ WF_vars(\E sw \in BagToSet(sweeps) : SendVote(sw))
    /\ WF_vars(\E sw \in BagToSet(sweeps) : ResumeSettled(sw))
    /\ WF_vars(\E sw \in BagToSet(sweeps) : FinishSweep(sw))

\* The system stays online and is not reloaded; the transport may fail.
NextOnline ==
    \/ Mounted
    \/ CastVote
    \/ StartSweep
    \/ \E sw \in BagToSet(sweeps) : ResumeQuery(sw)
    \/ \E sw \in BagToSet(sweeps) : SendVote(sw)
    \/ \E sw \in BagToSet(sweeps) : TransportSuccess(sw)
    \/ \E sw \in BagToSet(sweeps) : TransportFail(sw)
    \/ \E sw \in BagToSet(sweeps) : ResumeSettled(sw)
    \/ \E sw \in BagToSet(sweeps) : FinishSweep(sw)

\* Online throughout, sweeps keep running, every transport call ends, and
\* the transport does not fail for ever: a call that is made again and
\* again eventually succeeds.
DeliverySpec ==
    /\ Init
    /\ [][NextOnline]_vars
    /\ Scheduling
    /\ WF_vars(\E sw \in BagToSet(sweeps) : TransportSuccess(sw) \/ TransportFail(sw))
    /\ SF_vars(\E sw \in BagToSet(sweeps) : TransportSuccess(sw))

\* The system goes offline and online at will and is not reloaded; every
\* transport call succeeds.
NextReliable ==
    \/ Mounted
    \/ CastVote
    \/ ToggleOnline
    \/ StartSweep
    \/ \E sw \in BagToSet(sweeps) : ResumeQuery(sw)
    \/ \E sw \in BagToSet(sweeps) : SendVote(sw)
    \/ \E sw \in BagToSet(sweeps) : TransportSuccess(sw)
    \/ \E sw \in BagToSet(sweeps) : ResumeSettled(sw)
    \/ \E sw \in BagToSet(sweeps) : FinishSweep(sw)

ReconnectSpec ==
    /\ Init
    /\ [][NextReliable]_vars
    /\ Scheduling
    /\ WF_vars(\E sw \in BagToSet(sweeps) : TransportSuccess(sw))

\* ---- Notions the properties share ----

\* The invocations that have a transport call in flight for record id.
Attempting(id) ==
    {sw \in BagToSet(sweeps) : sw.pc = "waiting" /\ Head(sw.queued).id = id}

\* This step begins a transport call: some invocation is newly 'waiting'.
CallBegins ==
    \E sw \in BagToSet(sweeps') :
        sw.pc = "waiting" /\ CopiesIn(sw, sweeps') > CopiesIn(sw, sweeps)

\* This step starts a processQueue invocation.
SweepStarts == BagCardinality(sweeps') = BagCardinality(sweeps) + 1

\* The element of the array `arr` for record id, if any.
Shown(arr, id) == {arr[i] : i \in {j \in DOMAIN arr : arr[j].id = id}}

\* ---- C1 ----

\* C1: with the system online, sweeps running and a transport that fails
\* only finitely often in a row, every stored record is eventually removed
\* from the store (so a 'failed' record is attempted again).
EventualDelivery ==
    \A id \in Ids : (id \in DOMAIN db) ~> (id \notin DOMAIN db)

\* ---- C3 ----

\* C3: if the system ends up online for good, every record that was stored
\* while the system was offline is eventually removed from the store.
ReconnectionRecovery ==
    (<>[]isOnline) =>
        \A id \in Ids :
            []((id \in DOMAIN db /\ ~isOnline) => <>(id \notin DOMAIN db))

\* ---- C2 ----

NoDoubleSend ==
    \A id \in Ids :
        \A sw1, sw2 \in Attempting(id) : sw1 = sw2 /\ CopiesIn(sw1, sweeps) = 1

\* ---- C5 ----

\* C5: at most one processQueue invocation is in flight at any time.
AtMostOneSweep == BagCardinality(sweeps) <= 1

\* ---- C6 ----

OfflineLeavesUntouched ==
    [][ \A sw \in BagToSet(sweeps) :
          (SendVote(sw) /\ ~isOnline) =>
              LET vote == Head(sw.queued) IN
              vote.id \in DOMAIN db' =>
                  /\ db'[vote.id].status = vote.status
                  /\ db'[vote.id].retries = vote.retries ]_vars

\* ---- C8 ----

\* C8: a record that castVote stored and no sweep has touched yet is stored
\* as 'queued'; a reload keeps it, and the toArray() that onMounted runs
\* after the reload returns it with status 'queued'.
Durability ==
    [][ /\ CastVote =>
            \E v \in Shown(ToArray(db'), created') : v.status = "queued"
        /\ Restart =>
            \A id \in DOMAIN db : db[id].status = "queued" =>
                \E v \in Shown(ToArray(db'), id) : v = db[id]
        /\ Mounted =>
            \A id \in DOMAIN db : db[id].status = "queued" =>
                \E v \in Shown(votes', id) : v = db[id] ]_vars

\* After a cast the page was reloaded and has not mounted yet (nothing is
\* displayed), and the record is in the store as 'queued'.
DurabilityWitness ==
    /\ syncInterval = "null"
    /\ votes = <<>>
    /\ \E id \in DOMAIN db : db[id].status = "queued"

\* ---- C9 ----

\* C9: the step that switches the system from offline to online also
\* starts a processQueue invocation.
ReconnectStartsSweep ==
    [][ (ToggleOnline /\ isOnline') => SweepStarts ]_vars

\* ---- C10 ----

\* C10: for as long as a record is stored, its id, idempotencyKey and
\* signature never change, and every vote an invocation holds (and hands to
\* sendVote) carries the idempotencyKey the record has in the store.
IdentityImmutable ==
    /\ [](\A sw \in BagToSet(sweeps) : \A i \in DOMAIN sw.queued :
            LET vote == sw.queued[i] IN
            vote.id \in DOMAIN db =>
                /\ db[vote.id].id = vote.id
                /\ db[vote.id].idempotencyKey = vote.idempotencyKey
                /\ db[vote.id].signature = vote.signature)
    /\ [][ \A id \in DOMAIN db \cap DOMAIN db' :
            /\ db'[id].id = db[id].id
            /\ db'[id].idempotencyKey = db[id].idempotencyKey
            /\ db'[id].signature = db[id].signature ]_vars

\* A record went through a failed attempt and a second transport call for
\* it is in flight.
IdentityImmutableWitness ==
    \E id \in DOMAIN db :
        /\ db[id].status = "failed"
        /\ Attempting(id) # {}

\* ---- C11 ----

\* The edges the record state machine allows between two stored statuses.
AllowedEdge(from, to) ==
    \/ from = to
    \/ from \in {"queued", "failed"} /\ to = "sending"
    \/ from = "sending" /\ to = "failed"

\* C11: in every step a stored record keeps its status or moves along
\* queued -> sending, failed -> sending or sending -> failed, and a record
\* that leaves the store was stored as 'sending'.
StatusEdges ==
    [][ \A id \in DOMAIN db :
          IF id \in DOMAIN db'
          THEN AllowedEdge(db[id].status, db'[id].status)
          ELSE db[id].status = "sending" ]_vars

\* ---- C12 ----

\* C12: a failed transport attempt for a stored record leaves it 'failed'
\* with retries one higher than stored before, and no other step raises a
\* record's retries; so retries counts the failed attempts.
RetriesCountFailures ==
    [][ /\ \A sw \in BagToSet(sweeps) :
              TransportFail(sw) =>
                  LET id == Head(sw.queued).id IN
                  id \in DOMAIN db =>
                      /\ db'[id].status = "failed"
                      /\ db'[id].retries = db[id].retries + 1
        /\ \A id \in DOMAIN db \cap DOMAIN db' :
              db'[id].retries > db[id].retries =>
                  \E sw \in Attempting(id) : TransportFail(sw) ]_vars

\* ---- C13 ----

\* The invocations that have written record id as 'sending' and have not
\* yet resolved the attempt.
Holding(id) ==
    {sw \in BagToSet(sweeps) :
        (AtSendVote(sw) \/ sw.pc = "waiting") /\ Head(sw.queued).id = id}

\* C13: every record stored as 'sending' has a delivery attempt in
\* progress.
SendingHasAttempt ==
    \A id \in DOMAIN db : db[id].status = "sending" => Holding(id) # {}

\* ---- C14 ----

\* This step adds an invocation standing at `new`.
Arrives(new) == CopiesIn(new, sweeps') > CopiesIn(new, sweeps)

\* This step takes invocation sw away from where it stands.
Leaves(sw) == CopiesIn(sw, sweeps') < CopiesIn(sw, sweeps)

\* The ids of an invocation's array are in strictly ascending order, so
\* once it is past a vote it does not come back to it.
VisitsOnce(sw) ==
    \A i, j \in DOMAIN sw.queued : i < j => sw.queued[i].id < sw.queued[j].id

\* C14: an invocation whose 'sending' write for a vote was rejected goes
\* to the catch block and on to the next vote, never to sendVote for that
\* vote: a transport call begins only from an invocation whose 'sending'
\* write resolved, and an invocation stands there only if that write was
\* applied to the table.
ClaimFailureSkipsTransport ==
    /\ [](\A sw \in BagToSet(sweeps) : VisitsOnce(sw))
    /\ [][ /\ \A sw \in BagToSet(sweeps) :
                (sw.pc = "unclaimed" /\ Leaves(sw)) =>
                    \/ Arrives(Sweep("settled", sw.queued))
                    \/ Arrives(Sweep("thrown", sw.queued))
                    \/ Restart
           /\ \A new \in BagToSet(sweeps') :
                (new.pc = "waiting" /\ Arrives(new)) =>
                    \E sw \in BagToSet(sweeps) :
                        AtSendVote(sw) /\ sw.queued = new.queued /\ Leaves(sw)
           /\ \A new \in BagToSet(sweeps') :
                (AtSendVote(new) /\ Arrives(new)) =>
                    db' = Update(db, Head(new.queued).id, [status |-> "sending"])
         ]_vars

\* The 'sending' write of an invocation was rejected: the vote is still
\* stored as 'queued' and no transport call was made for it.
ClaimFailureSkipsTransportWitness ==
    \E sw \in BagToSet(sweeps) :
        /\ sw.pc = "unclaimed"
        /\ Head(sw.queued).id \in DOMAIN db
        /\ db[Head(sw.queued).id].status = "queued"

\* ---- C15 ----

\* C15: an invocation whose store operation rejected still visits every
\* vote of its array: when processQueue ends by throwing, no vote after
\* the one in hand is left unvisited.
StoreFailureKeepsSweeping ==
    [][ \A sw \in BagToSet(sweeps) :
          (sw.pc = "thrown" /\ Thrown(sw)) => Len(sw.queued) <= 1 ]_vars

\* ---- C16 ----

\* C16: a transport call begins only from an invocation whose 'sending'
\* write changed the record's row (update resolved 1, not 0).
ClaimedBeforeCall ==
    [][ \A sw \in BagToSet(sweeps) :
          (SendVote(sw) /\ isOnline) => sw.pc = "claimed" ]_vars

\* ---- C17 ----

\* C17: no step lowers the retries of a stored record.
RetriesMonotone ==
    [][ \A id \in DOMAIN db \cap DOMAIN db' :
          db'[id].retries >= db[id].retries ]_vars

\* Two overlapping invocations have both had their attempt for the same
\* record fail: the second wrote retries from its stale copy of the vote.
RetriesMonotoneWitness ==
    \E id \in DOMAIN db :
        /\ id \notin delivered
        /\ db[id].retries = 1
        /\ \E sw \in BagToSet(sweeps) :
            /\ sw.pc = "settled"
            /\ Head(sw.queued).id = id
            /\ CopiesIn(sw, sweeps) = 2

\* ---- C18 ----

NoResurrection ==
    [][ /\ \A id \in DOMAIN db' \ DOMAIN db : CastVote /\ id = created'
        /\ \A id \in DOMAIN db \ DOMAIN db' :
              \E sw \in Attempting(id) : TransportSuccess(sw)
        /\ \A id \in delivered : id \notin DOMAIN db' ]_vars

\* An invocation wrote 'sending' for a record another invocation had
\* already delivered and deleted; the write found no row and made none.
NoResurrectionWitness ==
    \E id \in delivered :
        /\ id \notin DOMAIN db
        /\ \E sw \in BagToSet(sweeps) : sw.pc = "missed" /\ Head(sw.queued).id = id

\* ---- C20 ----

====
